---- MODULE Spec2Model ----
(***************************************************************************)
(* TASCAM CD-400U RS-232C controller (src/tascam_controller.py).           *)
(*                                                                         *)
(* The controller object is shared by a caller thread, the command         *)
(* dispatch threads (_process_commands) and the poll threads               *)
(* (_poll_status) that connect() starts.  Each action below is one         *)
(* uninterrupted stretch of one thread's code.                             *)
(*                                                                         *)
(* Time: time.time() - x is kept as the age of x, saturating at the value  *)
(* it is compared with.  last_cmd_time ages in tenths of a second          *)
(* (CMD_INTERVAL = 1), last_reconnect_attempt in seconds                   *)
(* (reconnect_interval = 5); the clock is sampled when a tenth of a        *)
(* second or a reconnect interval has passed.                              *)
(***************************************************************************)
EXTENDS Integers, Sequences, FiniteSets, TLC

\* ------------------------------------------------------------------ bounds
MaxSpawn == 2        \* connect() calls that succeed (each starts two threads)
MaxCalls == 2        \* API calls made by the caller thread
MaxFrames == 1       \* chunks of bytes the device sends
MaxQueue == 0        \* commands waiting in cmd_queue when a poll cycle enqueues
MaxOverlap == 1      \* poll cycles run while more than one poll thread is alive

\* ------------------------------------------------------- program constants
CMD_INTERVAL == 1                       \* 0.1 s, in tenths of a second
reconnect_interval == 5                 \* 5.0 s, in seconds
max_failures_before_disconnect == 10
PollCountPeriod == 30                   \* poll_count is only used % 10 and % 30

\* ------------------------------------------------------------ characters
LF == "\n"
CR == "\r"
MACHINE_ID == "0"

DigitChars == <<"0", "1", "2", "3", "4", "5", "6", "7", "8", "9">>
HexChars == DigitChars \o <<"A", "B", "C", "D", "E", "F">>

IsDigit(c) == \E i \in 1..10 : DigitChars[i] = c
IsHex(c) == \E i \in 1..16 : HexChars[i] = c

\* int(c) for a one-character string c that is a decimal digit
DigitVal(c) == (CHOOSE i \in 1..10 : DigitChars[i] = c) - 1
\* int(c, 16) for one hexadecimal digit
HexVal(c) == (CHOOSE i \in 1..16 : HexChars[i] = c) - 1

Min(a, b) == IF a < b THEN a ELSE b

\* s[:n] and s[a:b] of Python (0-based, end exclusive, clipped to the length)
Slice(s, a, b) == SubSeq(s, a + 1, Min(b, Len(s)))
Take(s, n) == Slice(s, 0, n)
Drop(s, n) == SubSeq(s, n + 1, Len(s))

\* str(n) for n >= 0, and the format {n:02d}
RECURSIVE DecStr(_)
DecStr(n) == IF n < 10 THEN <<DigitChars[n + 1]>>
             ELSE DecStr(n \div 10) \o <<DigitChars[(n % 10) + 1]>>
Pad2(n) == IF n < 10 THEN <<"0">> \o DecStr(n) ELSE DecStr(n)
FormatTime(minutes, seconds) == Pad2(minutes) \o <<":">> \o Pad2(seconds)

\* --------------------------------------------------------- command codes
CMD_DIRECT_TRACK_SEARCH == <<"2", "3">>
CMD_PLAY == <<"1", "2">>
CMD_STOP == <<"1", "0">>
CMD_RESUME_PLAY_SELECT == <<"3", "4">>
CMD_RESUME_PLAY_SENSE == <<"3", "5">>
CMD_REPEAT_SELECT == <<"3", "7">>
CMD_REPEAT_SENSE == <<"3", "8">>
CMD_INCR_PLAY_SENSE == <<"3", "B">>
CMD_REMOTE_LOCAL_SELECT == <<"4", "C">>
CMD_REMOTE_LOCAL_SENSE == <<"4", "D">>
CMD_PLAY_MODE_SELECT == <<"4", "E">>
CMD_PLAY_MODE_SENSE == <<"4", "F">>
CMD_MECHA_STATUS_SENSE == <<"5", "0">>
CMD_TRACK_NO_SENSE == <<"5", "5">>
CMD_MEDIA_STATUS_SENSE == <<"5", "6">>
CMD_CURRENT_TRACK_INFO_SENSE == <<"5", "7">>
CMD_CURRENT_TRACK_TIME_SENSE == <<"5", "8">>
CMD_TOTAL_TRACK_TIME_SENSE == <<"5", "D">>
CMD_ERROR_SENSE == <<"7", "8">>
CMD_CAUTION_SENSE == <<"7", "9">>
CMD_DEVICE_SELECT == <<"7", "F", "0", "1">>

RET_RESUME_PLAY == <<"B", "5">>
RET_REPEAT == <<"B", "8">>
RET_INCR_PLAY == <<"B", "B">>
RET_REMOTE_LOCAL == <<"C", "D">>
RET_PLAY_MODE == <<"C", "F">>
RET_MECHA_STATUS == <<"D", "0">>
RET_TRACK_NO == <<"D", "5">>
RET_MEDIA_STATUS == <<"D", "6">>
RET_CURRENT_TRACK_INFO == <<"D", "7">>
RET_CURRENT_TRACK_TIME == <<"D", "8">>
RET_TOTAL_TRACK_TIME == <<"D", "D">>
RET_ERROR_SENSE_REQUEST == <<"F", "0">>
RET_CAUTION_SENSE_REQUEST == <<"F", "1">>
RET_ILLEGAL_STATUS == <<"F", "2">>
RET_CHANGE_STATUS == <<"F", "6">>
RET_ERROR_SENSE == <<"F", "8">>
RET_CAUTION_SENSE == <<"F", "9">>
RET_VENDOR == <<"F", "F">>

\* A queued command: the (command, data) tuple of send_command
Cmd(command, data) == [command |-> command, data |-> data]

\* ---------------------------------------------------------- Device Status
\* error_status / caution_status: None is the record with present = FALSE
NoSense == [present |-> FALSE, raw |-> 0, names |-> <<>>, has |-> FALSE]

DefaultStatus ==
  [mecha_status |-> "unknown",
   track_number |-> 0,
   current_track |-> 0,
   total_tracks |-> 0,
   time_elapsed |-> FormatTime(0, 0),
   time_remaining |-> FormatTime(0, 0),
   total_time |-> FormatTime(0, 0),
   media_present |-> FALSE,
   media_type |-> "unknown",
   play_mode |-> "continuous",
   repeat_mode |-> FALSE,
   resume_mode |-> FALSE,
   incremental_play |-> FALSE,
   remote_local_mode |-> "unknown",
   device |-> "CD",
   device_name |-> "CD",
   is_tuner |-> FALSE,
   error_status |-> NoSense,
   caution_status |-> NoSense]

\* ------------------------------------------------------- Response Decoder
\* int() of each of the characters of s succeeds
AllDigits(s) == \A i \in 1..Len(s) : IsDigit(s[i])

\* A wrong order of the digits: thousands, hundreds, tens, ones
TrackNumInOrder(d) == DigitVal(d[1]) * 1000 + DigitVal(d[2]) * 100
                      + DigitVal(d[3]) * 10 + DigitVal(d[4])

\* tens, ones, thousands, hundreds (the first four characters of d)
TrackNum(d) == DigitVal(d[3]) * 1000 + DigitVal(d[4]) * 100
               + DigitVal(d[1]) * 10 + DigitVal(d[2])

\* min_tens, min_ones, min_thousands, min_hundreds, sec_tens, sec_ones
TimeOf(d) == FormatTime(DigitVal(d[3]) * 1000 + DigitVal(d[4]) * 100
                          + DigitVal(d[1]) * 10 + DigitVal(d[2]),
                        DigitVal(d[5]) * 10 + DigitVal(d[6]))

MechaStatusOf(k) ==
  CASE k = <<"0", "0">> -> "no_media"
    [] k = <<"0", "1">> -> "ejecting"
    [] k = <<"1", "0">> -> "stop"
    [] k = <<"1", "1">> -> "play"
    [] k = <<"1", "2">> -> "ready"
    [] k = <<"2", "8">> -> "search_forward"
    [] k = <<"2", "9">> -> "search_backward"
    [] k = <<"F", "F">> -> "other"
    [] OTHER -> "unknown"

MediaTypeOf(k) ==
  CASE k = <<"0", "0">> -> "CD-DA/Audio"
    [] k = <<"1", "0">> -> "CD-ROM/Data"
    [] OTHER -> "Unknown"

PlayModeOf(k) ==
  CASE k = <<"0", "1">> -> "single"
    [] k = <<"0", "6">> -> "random"
    [] OTHER -> "continuous"

RemoteLocalOf(k) ==
  CASE k = <<"0", "0">> -> "remote_only"
    [] k = <<"0", "1">> -> "remote_and_local"
    [] OTHER -> "unknown"

\* device_map of the device select return: <<known, device, device_name>>
DeviceKindOf(k) ==
  CASE k = <<"0", "0">> -> <<TRUE, "sd", "SD Card">>
    [] k = <<"1", "0">> -> <<TRUE, "usb", "USB">>
    [] k = <<"1", "1">> -> <<TRUE, "cd", "CD">>
    [] k = <<"2", "0">> -> <<TRUE, "bluetooth", "Bluetooth">>
    [] k = <<"3", "0">> -> <<TRUE, "fm", "FM Radio">>
    [] k = <<"3", "1">> -> <<TRUE, "am", "AM Radio">>
    [] k = <<"4", "0">> -> <<TRUE, "aux", "AUX Input">>
    [] OTHER -> <<FALSE, "", "">>

IsTunerDevice(device) == device \in {"fm", "am"}

\* int(s, 16) of a two-character string succeeds; its value
IsHex2(s) == Len(s) = 2 /\ IsHex(s[1]) /\ IsHex(s[2])
Hex2Val(s) == HexVal(s[1]) * 16 + HexVal(s[2])

\* A wrong bit test: bit i + 1 instead of bit i
BitAbove(b, i) == (b \div (2 ^ (i + 1))) % 2 = 1

BitSet(b, i) == (b \div (2 ^ i)) % 2 = 1

ErrorNames == <<"focus_error", "tracking_error", "spindle_error", "sled_error",
                "tray_error", "no_disc", "cannot_play", "other_error">>
CautionNames == <<"unsupported_disc", "dirty_disc", "no_audio",
                  "temperature_high", "copyright_protected">>

\* the names, in bit order, of the bits of b that are set
RECURSIVE NamesFrom(_, _, _)
NamesFrom(names, b, i) ==
  IF i > Len(names) THEN <<>>
  ELSE (IF BitSet(b, i - 1) THEN <<names[i]>> ELSE <<>>) \o NamesFrom(names, b, i + 1)

SenseOf(names, b) ==
  [present |-> TRUE, raw |-> b, names |-> NamesFrom(names, b, 1),
   has |-> Len(NamesFrom(names, b, 1)) > 0]

\* What one call of _handle_response does: the record after it, whether
\* listeners are notified (updated), whether it raised, what it enqueued.
Decoded(st, updated) == [st |-> st, updated |-> updated, raised |-> FALSE, cmds |-> <<>>]
Raised(st) == [st |-> st, updated |-> FALSE, raised |-> TRUE, cmds |-> <<>>]
\* A wrong outcome: the command is enqueued twice
EnqueuesTwice(st, c) == [st |-> st, updated |-> FALSE, raised |-> FALSE, cmds |-> <<c, c>>]
Enqueues(st, c) == [st |-> st, updated |-> FALSE, raised |-> FALSE, cmds |-> <<c>>]

\* A wrong decode: the total time is never stored
TotalTracksOnly(st, data) ==
  IF Len(data) < 12 THEN Decoded(st, FALSE)
  ELSE Decoded([st EXCEPT !.total_tracks = TrackNum(data)], TRUE)

HandleTotalTrackTime(st, data) ==
  IF Len(data) < 12 THEN Decoded(st, FALSE)
  ELSE IF ~AllDigits(Take(data, 4)) THEN Raised(st)
  ELSE LET st1 == [st EXCEPT !.total_tracks = TrackNum(data)]
       IN IF Slice(data, 4, 10) = <<"0", "0", "0", "0", "0", "0">>
            THEN Decoded(st1, TRUE)
          ELSE IF ~AllDigits(Slice(data, 4, 10)) THEN Raised(st1)
          ELSE Decoded([st1 EXCEPT !.total_time = TimeOf(Slice(data, 4, 10))], TRUE)

HandleVendor(st, data) ==
  IF Len(data) >= 8 /\ Take(data, 2) = <<"0", "1">> /\ DeviceKindOf(Slice(data, 6, 8))[1]
    THEN LET k == DeviceKindOf(Slice(data, 6, 8))
         IN Decoded([st EXCEPT !.device = k[2], !.device_name = k[3],
                               !.is_tuner = IsTunerDevice(k[2])], TRUE)
  ELSE Decoded(st, FALSE)

HandleSense(st, data, isError) ==
  IF Len(data) < 2 THEN Decoded(st, FALSE)
  ELSE IF ~IsHex2(Take(data, 2)) THEN Raised(st)
  ELSE IF isError
    THEN Decoded([st EXCEPT !.error_status = SenseOf(ErrorNames, Hex2Val(Take(data, 2)))], TRUE)
  ELSE Decoded([st EXCEPT !.caution_status =
                  SenseOf(SubSeq(CautionNames, 1, 5), Hex2Val(Take(data, 2)))], TRUE)

HandleResponse(st, command, data) ==
  CASE command = RET_MECHA_STATUS ->
         Decoded([st EXCEPT !.mecha_status = MechaStatusOf(Take(data, 2))], TRUE)
    [] command = RET_TRACK_NO ->
         IF Len(data) < 4 THEN Decoded(st, FALSE)
         ELSE IF ~AllDigits(Take(data, 4)) THEN Raised(st)
         ELSE Decoded([st EXCEPT !.track_number = TrackNum(data)], TRUE)
    [] command = RET_CURRENT_TRACK_TIME ->
         IF Len(data) < 10 THEN Decoded(st, FALSE)
         ELSE IF ~AllDigits(Slice(data, 2, 8)) THEN Raised(st)
         ELSE Decoded([st EXCEPT !.time_elapsed = TimeOf(Slice(data, 2, 8))], TRUE)
    [] command = RET_MEDIA_STATUS ->
         IF Len(data) < 4 THEN Decoded(st, FALSE)
         ELSE Decoded([st EXCEPT !.media_present = (Take(data, 2) = <<"0", "1">>),
                                 !.media_type = MediaTypeOf(Slice(data, 2, 4))], TRUE)
    [] command = RET_CURRENT_TRACK_INFO ->
         IF Len(data) < 4 THEN Decoded(st, FALSE)
         ELSE IF ~AllDigits(Take(data, 4)) THEN Raised(st)
         ELSE Decoded([st EXCEPT !.current_track = TrackNum(data)], TRUE)
    [] command = RET_PLAY_MODE ->
         IF Len(data) < 2 THEN Decoded(st, FALSE)
         ELSE Decoded([st EXCEPT !.play_mode = PlayModeOf(Take(data, 2))], TRUE)
    [] command = RET_TOTAL_TRACK_TIME -> HandleTotalTrackTime(st, data)
    [] command = RET_VENDOR -> HandleVendor(st, data)
    [] command = RET_RESUME_PLAY ->
         IF Len(data) < 2 THEN Decoded(st, FALSE)
         ELSE Decoded([st EXCEPT !.resume_mode = (Take(data, 2) = <<"0", "1">>)], TRUE)
    [] command = RET_REPEAT ->
         IF Len(data) < 2 THEN Decoded(st, FALSE)
         ELSE Decoded([st EXCEPT !.repeat_mode = (Take(data, 2) = <<"0", "1">>)], TRUE)
    [] command = RET_INCR_PLAY ->
         IF Len(data) < 2 THEN Decoded(st, FALSE)
         ELSE Decoded([st EXCEPT !.incremental_play = (Take(data, 2) = <<"0", "1">>)], TRUE)
    [] command = RET_REMOTE_LOCAL ->
         IF Len(data) < 2 THEN Decoded(st, FALSE)
         ELSE Decoded([st EXCEPT !.remote_local_mode = RemoteLocalOf(Take(data, 2))], TRUE)
    [] command = RET_ERROR_SENSE -> HandleSense(st, data, TRUE)
    [] command = RET_CAUTION_SENSE -> HandleSense(st, data, FALSE)
    [] command = RET_CHANGE_STATUS ->
         Enqueues(st, Cmd(CMD_DEVICE_SELECT, <<"F", "F">>))
    [] command = RET_ERROR_SENSE_REQUEST -> Enqueues(st, Cmd(CMD_ERROR_SENSE, <<>>))
    [] command = RET_CAUTION_SENSE_REQUEST -> Enqueues(st, Cmd(CMD_CAUTION_SENSE, <<>>))
    [] OTHER -> Decoded(st, FALSE)

\* ------------------------------------------------------------ Frame Codec
\* _build_command: LF, machine id, the command code, the data, CR
BuildCommand(command, data) == <<LF, MACHINE_ID>> \o command \o data \o <<CR>>

\* A wrong index: that of the last CR of the buffer, not of the first
LastCRIndex(buf) == CHOOSE i \in 1..Len(buf) : buf[i] = CR /\ \A j \in (i + 1)..Len(buf) : buf[j] # CR

HasCR(buf) == \E i \in 1..Len(buf) : buf[i] = CR
CRIndex(buf) == CHOOSE i \in 1..Len(buf) : buf[i] = CR /\ \A j \in 1..(i - 1) : buf[j] # CR

\* bytes.decode('ascii', errors='ignore'): bytes above 0x7F are dropped
NonAscii == "\\x80"
RECURSIVE DecodeAscii(_)
DecodeAscii(bytes) ==
  IF bytes = <<>> THEN <<>>
  ELSE (IF Head(bytes) = NonAscii THEN <<>> ELSE <<Head(bytes)>>) \o DecodeAscii(Tail(bytes))

\* The part of _read_response after the read: [found, command, data, buffer]
NoFrame(buf) == [found |-> FALSE, command |-> <<>>, data |-> <<>>, buffer |-> buf]
ExtractFrame(buf) ==
  IF ~HasCR(buf) THEN NoFrame(buf)
  ELSE LET cr == CRIndex(buf)
           message == SubSeq(buf, 1, cr - 1)
           rest == SubSeq(buf, cr + 1, Len(buf))
           msg_str == DecodeAscii(Tail(message))
       IN IF Len(message) >= 3 /\ message[1] = LF /\ Len(msg_str) >= 3
            THEN [found |-> TRUE, command |-> SubSeq(msg_str, 2, 3),
                  data |-> Drop(msg_str, 3), buffer |-> rest]
          ELSE NoFrame(rest)

\* ---------------------------------------------------------------- threads
Caller == 0
None == -1
AllThreads == 0..(2 * MaxSpawn)
CmdThreads == {2 * k - 1 : k \in 1..MaxSpawn}
PollThreads == {2 * k : k \in 1..MaxSpawn}
Listeners == 1..2


\* What the device sends in the lifecycle model: a mechanism status return
\* (play) and a track number return whose digits are not decimal.
DeviceChunks ==
  {BuildCommand(RET_MECHA_STATUS, <<"1", "1">>),
   BuildCommand(RET_TRACK_NO, <<"1", "2", "A", "B">>)}

\* Arguments the caller passes in the lifecycle model
PlayModeArgs == {"single", "shuffle"}
DeviceArgs == {"fm", "tape"}
OnOffArgs == {TRUE}

\* Track and preset numbers the request threads pass: the ends of the ranges
\* 1..999 and 1..20 and their neighbours
NumberArgs == {0, 1, 20, 21, 999, 1000}

VARIABLES
  serial,                \* self.serial: "None", "open" or "closed" (is_open)
  connected,             \* self.connected
  running,               \* self.running
  cmd_queue,             \* self.cmd_queue
  sinceCmd,              \* time.time() - self.last_cmd_time, tenths, saturating
  consecutive_failures,  \* self.consecutive_failures
  sinceReconnect,        \* time.time() - self.last_reconnect_attempt, seconds, saturating
  current_status,        \* self.current_status
  status_callbacks,      \* self.status_callbacks
  cmd_thread,            \* self.cmd_thread
  poll_thread,           \* self.poll_thread
  response_buffer,       \* self.response_buffer
  rx,                    \* bytes the device has sent, not yet read (in_waiting)
  pc,                    \* where each thread is
  poll_count,            \* poll_count of each poll thread, modulo 30
  wait,                  \* the thread still has to sleep before its write
  inExcept,              \* the poll thread is in its except handler
  device_lower,          \* the local device_lower of the caller's switch_device
  spawned,               \* number of connect() calls that started threads
  calls,                 \* number of API calls the caller has made
  framesSent,            \* number of chunks the device has sent
  delivered,             \* per listener: the last snapshot it was called with
  holders,               \* dispatch threads holding a dequeued command, oldest first
  overtaken,             \* holders whose command a later-dequeued command was written before
  sinceOpen,             \* time since the last attempt to open the transport
  closes,                \* close() calls on the transport opened last
  overlap,               \* poll cycles run while another poll thread was alive
  response,              \* the local response of _poll_status (line 336)
  notifying,             \* per thread: index of the callback _notify_callbacks calls next, 0 outside the loop
  called,                \* the calls made by the notification loop in progress: <<listener, snapshot>>
  returned,              \* what get_status returned last to a request thread
  result,                \* the answer of the last HTTP request of app.py: its 'success'
  baudrate               \* the local baudrate of the connect request of app.py in progress, or None

ctrlVars == <<serial, connected, running, cmd_queue, sinceCmd, consecutive_failures,
              sinceReconnect, current_status, status_callbacks, cmd_thread,
              poll_thread, response_buffer>>
threadVars == <<pc, poll_count, wait, inExcept, device_lower, spawned>>
envVars == <<rx, calls, framesSent, overlap>>
ghostVars == <<delivered, holders, overtaken, sinceOpen, closes>>
vars == <<ctrlVars, threadVars, envVars, ghostVars,
          response, notifying, called, returned, result, baudrate>>

Alive(t) == pc[t] \notin {"unborn", "done", "crashed"}


Init ==
  /\ serial = "None"
  /\ connected = FALSE
  /\ running = FALSE
  /\ cmd_queue = <<>>
  /\ sinceCmd = CMD_INTERVAL
  /\ consecutive_failures = 0
  /\ sinceReconnect = reconnect_interval
  /\ current_status = DefaultStatus
  /\ status_callbacks = <<>>
  /\ cmd_thread = None
  /\ poll_thread = None
  /\ response_buffer = <<>>
  /\ rx = <<>>
  /\ pc = [t \in AllThreads |-> IF t = Caller THEN "idle" ELSE "unborn"]
  /\ poll_count = [t \in AllThreads |-> 0]
  /\ wait = [t \in AllThreads |-> FALSE]
  /\ inExcept = [t \in AllThreads |-> FALSE]
  /\ device_lower = ""
  /\ spawned = 0
  /\ calls = 0
  /\ framesSent = 0
  /\ delivered = [l \in Listeners |-> [got |-> FALSE, snap |-> DefaultStatus]]
  /\ holders = <<>>
  /\ overtaken = {}
  /\ sinceOpen = reconnect_interval
  /\ closes = 0
  /\ overlap = 0
  /\ response = [found |-> FALSE, command |-> <<>>, data |-> <<>>]
  /\ notifying = [t \in AllThreads |-> 0]
  /\ called = <<>>
  /\ returned = DefaultStatus
  /\ result = TRUE
  /\ baudrate = None

\* ------------------------------------------------- Notification Registry
Registered(l) == \E i \in 1..Len(status_callbacks) : status_callbacks[i] = l

\* _notify_callbacks: every registered callback gets a copy of st
NotifyCallbacks(st) ==
  [l \in Listeners |-> IF Registered(l) THEN [got |-> TRUE, snap |-> st] ELSE delivered[l]]

\* --------------------------------------------------------- Dispatch Queue
\* send_command for each of cs, in order: cmd_queue.put((command, data))
SendCommands(cs) == cmd_queue' = cmd_queue \o cs

\* ------------------------------------------------------------------ time
SendSleepers == {t \in AllThreads : wait[t] /\ pc[t] \in {"conn_write", "cmd_write"}}

\* Time is observed through the waits of the code only, so it passes in the
\* model when a thread is waiting for it or is about to look at the clock.
\* A tenth of a second passes: the threads sleeping before their write wake up
TickTenth ==
  /\ SendSleepers # {}
  /\ sinceCmd' = Min(sinceCmd + 1, CMD_INTERVAL)
  /\ wait' = [t \in AllThreads |-> IF t \in SendSleepers THEN FALSE ELSE wait[t]]
  /\ UNCHANGED <<serial, connected, running, cmd_queue, consecutive_failures,
                 sinceReconnect, current_status, status_callbacks, cmd_thread,
                 poll_thread, response_buffer, rx, pc, poll_count, inExcept,
                 spawned, calls, framesSent, delivered, holders, overtaken,
                 sinceOpen, closes, overlap, device_lower,
                 response, notifying, called, returned, result, baudrate>>

\* The poll threads in the sleep of the reconnect branch (line 332)
ReconnectSleepers ==
  {t \in PollThreads : pc[t] = "poll_top" /\ running /\ ~connected}

\* A reconnect interval passes, before the next API call or in that sleep
TickInterval ==
  /\ \/ sinceOpen < reconnect_interval /\ pc[Caller] = "idle" /\ calls < MaxCalls
     \/ sinceReconnect < reconnect_interval /\ ReconnectSleepers # {}
  /\ sinceReconnect' = Min(sinceReconnect + reconnect_interval, reconnect_interval)
  /\ sinceOpen' = Min(sinceOpen + reconnect_interval, reconnect_interval)
  /\ sinceCmd' = CMD_INTERVAL
  /\ wait' = [t \in AllThreads |-> FALSE]
  /\ UNCHANGED <<serial, connected, running, cmd_queue, consecutive_failures,
                 current_status, status_callbacks, cmd_thread, poll_thread,
                 response_buffer, rx, pc, poll_count, inExcept, spawned,
                 calls, framesSent, delivered, holders, overtaken, closes,
                 overlap, device_lower,
                 response, notifying, called, returned, result, baudrate>>

\* ---------------------------------------------------------------- device
\* The device sends bytes; they wait in the serial input buffer until the
\* next read takes them all, so they are sent when a read is about to happen
DeviceSend(chunk) ==
  /\ serial = "open"
  /\ \E t \in PollThreads : pc[t] = "poll_cycle"
  /\ framesSent < MaxFrames
  /\ rx' = rx \o chunk
  /\ framesSent' = framesSent + 1
  /\ UNCHANGED <<serial, connected, running, cmd_queue, sinceCmd,
                 consecutive_failures, sinceReconnect, current_status,
                 status_callbacks, cmd_thread, poll_thread, response_buffer,
                 pc, poll_count, wait, inExcept, spawned, calls, delivered,
                 holders, overtaken, sinceOpen, closes, overlap, device_lower,
                 response, notifying, called, returned, result, baudrate>>

\* ------------------------------------------------- _send_command_now
\* The guard and the pacing decision: TRUE when the command is to be written
SendAllowed == connected /\ serial # "None"
MustSleep == sinceCmd < CMD_INTERVAL

\* The dispatch threads that dequeued their command before t dequeued its own
EarlierHolders(t) ==
  {holders[i] : i \in {j \in 1..Len(holders) : \E k \in (j + 1)..Len(holders) : holders[k] = t}}

\* serial.write(cmd_bytes) and last_cmd_time = time.time(), by thread t; the
\* write raises on a closed port, and then last_cmd_time stays
WriteCommand(t) ==
  /\ holders' = SelectSeq(holders, LAMBDA u : u # t)
  /\ IF serial = "open"
       THEN /\ sinceCmd' = 0
            /\ overtaken' = (overtaken \cup EarlierHolders(t)) \ {t}
       ELSE /\ overtaken' = overtaken \ {t}
            /\ UNCHANGED sinceCmd

\* --------------------------------------------------------------- connect
\* Where connect() returns to with the value ok: its caller, line 329 of the
\* poll loop, or line 78 of the connect request of app.py
AfterConnect(t, ok) ==
  IF t # Caller THEN "poll_top"
  ELSE IF baudrate = None THEN "idle"
  ELSE IF ok THEN "http_ok" ELSE "http_failed"

\* connect(), lines 152-171 and 181-184: open the port, start both threads
ConnOpen(t) ==
  /\ pc[t] = "conn_open"
  /\ \E ok \in BOOLEAN :
       /\ ok => spawned < MaxSpawn
       /\ IF ok
            THEN /\ serial' = "open"
                 /\ connected' = TRUE
                 /\ running' = TRUE
                 /\ cmd_thread' = 2 * (spawned + 1) - 1
                 /\ poll_thread' = 2 * (spawned + 1)
                 /\ spawned' = spawned + 1
                 /\ pc' = [pc EXCEPT ![t] = "conn_send",
                                     ![2 * (spawned + 1) - 1] = "cmd_loop",
                                     ![2 * (spawned + 1)] = "poll_top"]
                 /\ closes' = 0
            ELSE /\ connected' = FALSE
                 /\ pc' = [pc EXCEPT ![t] = AfterConnect(t, FALSE)]
                 /\ UNCHANGED <<serial, running, cmd_thread, poll_thread, spawned, closes>>
  /\ sinceOpen' = 0
  /\ UNCHANGED <<cmd_queue, sinceCmd, consecutive_failures, sinceReconnect,
                 current_status, status_callbacks, response_buffer, rx,
                 poll_count, wait, inExcept, calls, framesSent, delivered,
                 holders, overtaken, overlap, device_lower,
                 response, notifying, called, returned, result, baudrate>>

\* connect(), line 177: _send_command_now(CMD_REMOTE_LOCAL_SELECT, '01'), lines 246-253
ConnSend(t) ==
  /\ pc[t] = "conn_send"
  /\ IF SendAllowed
       THEN /\ wait' = [wait EXCEPT ![t] = MustSleep]
            /\ pc' = [pc EXCEPT ![t] = "conn_write"]
            /\ UNCHANGED consecutive_failures
       ELSE /\ pc' = [pc EXCEPT ![t] = AfterConnect(t, TRUE)]
            /\ consecutive_failures' = IF t = Caller THEN consecutive_failures ELSE 0
            /\ UNCHANGED wait
  /\ UNCHANGED <<serial, connected, running, cmd_queue, sinceCmd,
                 sinceReconnect, current_status, status_callbacks, cmd_thread,
                 poll_thread, response_buffer, rx, poll_count, inExcept,
                 spawned, calls, framesSent, delivered, holders, overtaken,
                 sinceOpen, closes, overlap, device_lower,
                 response, notifying, called, returned, result, baudrate>>

\* connect(), line 177 continued: lines 255-264, then return True
ConnWrite(t) ==
  /\ pc[t] = "conn_write"
  /\ ~wait[t]
  /\ WriteCommand(t)
  /\ pc' = [pc EXCEPT ![t] = AfterConnect(t, TRUE)]
  /\ consecutive_failures' = IF t = Caller THEN consecutive_failures ELSE 0
  /\ UNCHANGED <<serial, connected, running, cmd_queue, sinceReconnect,
                 current_status, status_callbacks, cmd_thread, poll_thread,
                 response_buffer, rx, poll_count, wait, inExcept, spawned,
                 calls, framesSent, delivered, sinceOpen, closes, overlap,
                 device_lower,
                 response, notifying, called, returned, result, baudrate>>

\* ------------------------------------------------------------ disconnect
\* The except handler of the poll loop, lines 387-394, entered by thread t
HandlerDisconnects == consecutive_failures + 1 >= max_failures_before_disconnect

\* disconnect(), lines 188-193: running = False, then the joins.  A join
\* with timeout=1.0 returns when the thread has ended or the second has
\* passed.  Thread.join raises RuntimeError when the thread joins itself: in
\* the try block of the poll loop the except handler (lines 387-394) then
\* runs, in the handler the exception ends the thread.
DiscStop(t) ==
  /\ pc[t] = "disc_stop"
  /\ running' = FALSE
  /\ IF poll_thread = t
       THEN IF inExcept[t]
              THEN /\ pc' = [pc EXCEPT ![t] = "crashed"]
                   /\ UNCHANGED <<consecutive_failures, inExcept>>
              ELSE /\ consecutive_failures' = consecutive_failures + 1
                   /\ inExcept' = [inExcept EXCEPT ![t] = HandlerDisconnects]
                   /\ pc' = [pc EXCEPT ![t] =
                               IF HandlerDisconnects THEN "disc_stop" ELSE "poll_top"]
       ELSE /\ pc' = [pc EXCEPT ![t] = "disc_finish"]
            /\ UNCHANGED <<consecutive_failures, inExcept>>
  /\ UNCHANGED <<serial, connected, cmd_queue, sinceCmd, sinceReconnect,
                 current_status, status_callbacks, cmd_thread, poll_thread,
                 response_buffer, rx, poll_count, wait, spawned, calls,
                 framesSent, delivered, holders, overtaken, sinceOpen, closes,
                 overlap, device_lower,
                 response, notifying, called, returned, result, baudrate>>

\* disconnect(), lines 195-201, with _reset_status (lines 203-227)
DiscFinish(t) ==
  /\ pc[t] = "disc_finish"
  /\ IF serial = "open"
       THEN serial' = "closed" /\ closes' = closes + 1 /\ rx' = <<>>
       ELSE UNCHANGED <<serial, closes, rx>>
  /\ connected' = FALSE
  /\ consecutive_failures' = 0
  /\ current_status' = DefaultStatus
  /\ delivered' = NotifyCallbacks(DefaultStatus)
  /\ pc' = [pc EXCEPT ![t] = IF t # Caller THEN "poll_top"
                              ELSE IF baudrate = None THEN "idle" ELSE "http_new"]
  /\ inExcept' = [inExcept EXCEPT ![t] = FALSE]
  /\ UNCHANGED <<running, cmd_queue, sinceCmd, sinceReconnect,
                 status_callbacks, cmd_thread, poll_thread, response_buffer,
                 poll_count, wait, spawned, calls, framesSent, holders,
                 overtaken, sinceOpen, overlap, device_lower,
                 response, notifying, called, returned, result, baudrate>>

\* --------------------------------------------------------- dispatch loop
\* _process_commands, line 272: the loop ends when running is false
CmdExit(t) ==
  /\ pc[t] = "cmd_loop"
  /\ ~running
  /\ pc' = [pc EXCEPT ![t] = "done"]
  /\ UNCHANGED <<serial, connected, running, cmd_queue, sinceCmd,
                 consecutive_failures, sinceReconnect, current_status,
                 status_callbacks, cmd_thread, poll_thread, response_buffer,
                 rx, poll_count, wait, inExcept, spawned, calls, framesSent,
                 delivered, holders, overtaken, sinceOpen, closes, overlap,
                 device_lower,
                 response, notifying, called, returned, result, baudrate>>

\* _process_commands, lines 274-276, and _send_command_now, lines 246-253:
\* take the next command; it is dropped when the controller is not connected
CmdTake(t) ==
  /\ pc[t] = "cmd_loop"
  /\ running
  /\ cmd_queue # <<>>
  /\ cmd_queue' = Tail(cmd_queue)
  /\ IF SendAllowed
       THEN /\ wait' = [wait EXCEPT ![t] = MustSleep]
            /\ pc' = [pc EXCEPT ![t] = "cmd_write"]
            /\ holders' = Append(holders, t)
       ELSE UNCHANGED <<wait, pc, holders>>
  /\ UNCHANGED <<serial, connected, running, sinceCmd, consecutive_failures,
                 sinceReconnect, current_status, status_callbacks, cmd_thread,
                 poll_thread, response_buffer, rx, poll_count, inExcept,
                 spawned, calls, framesSent, delivered, overtaken, sinceOpen,
                 closes, overlap, device_lower,
                 response, notifying, called, returned, result, baudrate>>

\* _send_command_now, lines 255-264, in the dispatch thread
CmdWrite(t) ==
  /\ pc[t] = "cmd_write"
  /\ ~wait[t]
  /\ WriteCommand(t)
  /\ pc' = [pc EXCEPT ![t] = "cmd_loop"]
  /\ UNCHANGED <<serial, connected, running, cmd_queue, consecutive_failures,
                 sinceReconnect, current_status, status_callbacks, cmd_thread,
                 poll_thread, response_buffer, rx, poll_count, wait, inExcept,
                 spawned, calls, framesSent, delivered, sinceOpen, closes,
                 overlap, device_lower,
                 response, notifying, called, returned, result, baudrate>>

\* -------------------------------------------------------------- poll loop
\* _poll_status, line 319: the loop ends when running is false
PollExit(t) ==
  /\ pc[t] = "poll_top"
  /\ ~running
  /\ pc' = [pc EXCEPT ![t] = "done"]
  /\ UNCHANGED <<serial, connected, running, cmd_queue, sinceCmd,
                 consecutive_failures, sinceReconnect, current_status,
                 status_callbacks, cmd_thread, poll_thread, response_buffer,
                 rx, poll_count, wait, inExcept, spawned, calls, framesSent,
                 delivered, holders, overtaken, sinceOpen, closes, overlap,
                 device_lower,
                 response, notifying, called, returned, result, baudrate>>

\* _poll_status, lines 322-327: not connected and the interval has passed
PollReconnect(t) ==
  /\ pc[t] = "poll_top"
  /\ running
  /\ ~connected
  /\ sinceReconnect >= reconnect_interval
  /\ sinceReconnect' = 0
  /\ pc' = [pc EXCEPT ![t] = "conn_open"]
  /\ UNCHANGED <<serial, connected, running, cmd_queue, sinceCmd,
                 consecutive_failures, current_status, status_callbacks,
                 cmd_thread, poll_thread, response_buffer, rx, poll_count,
                 wait, inExcept, spawned, calls, framesSent, delivered,
                 holders, overtaken, sinceOpen, closes, overlap, device_lower,
                 response, notifying, called, returned, result, baudrate>>

\* _read_response, lines 284-314, as seen by the poll loop
ReadResponse ==
  IF serial = "open" THEN ExtractFrame(response_buffer \o rx) ELSE NoFrame(response_buffer)

\* _poll_status, lines 319-322: the loop goes on into a poll cycle
PollEnter(t) ==
  /\ pc[t] = "poll_top"
  /\ running
  /\ connected
  /\ pc' = [pc EXCEPT ![t] = "poll_cycle"]
  /\ UNCHANGED <<serial, connected, running, cmd_queue, sinceCmd,
                 consecutive_failures, sinceReconnect, current_status,
                 status_callbacks, cmd_thread, poll_thread, response_buffer,
                 rx, poll_count, wait, inExcept, spawned, calls, framesSent,
                 delivered, holders, overtaken, sinceOpen, closes, overlap,
                 device_lower,
                 response, notifying, called, returned, result, baudrate>>

\* The status queries of poll cycle n, lines 344-374
EveryCycle == <<Cmd(CMD_MECHA_STATUS_SENSE, <<>>), Cmd(CMD_TRACK_NO_SENSE, <<>>),
                Cmd(CMD_CURRENT_TRACK_TIME_SENSE, <<"0", "0">>)>>
EveryTenth == <<Cmd(CMD_MEDIA_STATUS_SENSE, <<>>), Cmd(CMD_CURRENT_TRACK_INFO_SENSE, <<>>),
                Cmd(CMD_TOTAL_TRACK_TIME_SENSE, <<>>), Cmd(CMD_PLAY_MODE_SENSE, <<>>),
                Cmd(CMD_DEVICE_SELECT, <<"F", "F">>)>>
EveryThirtieth == <<Cmd(CMD_RESUME_PLAY_SENSE, <<>>), Cmd(CMD_REPEAT_SENSE, <<>>),
                    Cmd(CMD_INCR_PLAY_SENSE, <<>>), Cmd(CMD_REMOTE_LOCAL_SENSE, <<>>)>>
CycleCommands(n) ==
  EveryCycle \o (IF n % 10 = 0 THEN EveryTenth ELSE <<>>)
             \o (IF n % 30 = 0 THEN EveryThirtieth ELSE <<>>)

\* The poll threads alive beside t
OtherPollers(t) == {u \in PollThreads \ {t} : Alive(u)}

\* _poll_status, lines 336-385, one poll cycle: read and handle a response,
\* enqueue the status queries, count a cycle without response as a failure.
\* When _handle_response raises, the except handler (lines 387-394) runs.
PollCycle(t) ==
  /\ pc[t] = "poll_cycle"
  /\ Len(cmd_queue) <= MaxQueue
  /\ IF OtherPollers(t) = {}
       THEN UNCHANGED overlap
       ELSE overlap < MaxOverlap /\ overlap' = overlap + 1
  /\ LET r == ReadResponse
         h == HandleResponse(current_status, r.command, r.data)
     IN /\ response_buffer' = r.buffer
        /\ rx' = IF serial = "open" THEN <<>> ELSE rx
        /\ current_status' = IF r.found THEN h.st ELSE current_status
        /\ delivered' = IF r.found /\ h.updated THEN NotifyCallbacks(h.st) ELSE delivered
        /\ IF r.found /\ h.raised
             THEN /\ UNCHANGED <<cmd_queue, poll_count>>
                  /\ consecutive_failures' = consecutive_failures + 1
                  /\ inExcept' = [inExcept EXCEPT ![t] = HandlerDisconnects]
                  /\ pc' = [pc EXCEPT ![t] =
                              IF HandlerDisconnects THEN "disc_stop" ELSE "poll_top"]
             ELSE /\ SendCommands((IF r.found THEN h.cmds ELSE <<>>)
                                  \o CycleCommands(poll_count[t]))
                  /\ UNCHANGED inExcept
                  /\ IF r.found
                       THEN /\ consecutive_failures' = 0
                            /\ poll_count' = [poll_count EXCEPT ![t] = (@ + 1) % PollCountPeriod]
                            /\ pc' = [pc EXCEPT ![t] = "poll_top"]
                       ELSE /\ consecutive_failures' = consecutive_failures + 1
                            /\ IF consecutive_failures + 1 >= max_failures_before_disconnect
                                 THEN /\ pc' = [pc EXCEPT ![t] = "disc_stop"]
                                      /\ UNCHANGED poll_count
                                 ELSE /\ pc' = [pc EXCEPT ![t] = "poll_top"]
                                      /\ poll_count' =
                                           [poll_count EXCEPT ![t] = (@ + 1) % PollCountPeriod]
  /\ UNCHANGED <<serial, connected, running, sinceCmd, sinceReconnect,
                 status_callbacks, cmd_thread, poll_thread, wait, spawned,
                 calls, framesSent, holders, overtaken, sinceOpen, closes,
                 device_lower,
                 response, notifying, called, returned, result, baudrate>>

\* ------------------------------------------------------------ the caller
CallerIdle == pc[Caller] = "idle" /\ calls < MaxCalls

\* connect() is called
CallConnect ==
  /\ CallerIdle
  /\ calls' = calls + 1
  /\ pc' = [pc EXCEPT ![Caller] = "conn_open"]
  /\ UNCHANGED <<serial, connected, running, cmd_queue, sinceCmd,
                 consecutive_failures, sinceReconnect, current_status,
                 status_callbacks, cmd_thread, poll_thread, response_buffer,
                 rx, poll_count, wait, inExcept, spawned, framesSent,
                 delivered, holders, overtaken, sinceOpen, closes, overlap,
                 device_lower,
                 response, notifying, called, returned, result, baudrate>>

\* disconnect() is called
CallDisconnect ==
  /\ CallerIdle
  /\ calls' = calls + 1
  /\ pc' = [pc EXCEPT ![Caller] = "disc_stop"]
  /\ UNCHANGED <<serial, connected, running, cmd_queue, sinceCmd,
                 consecutive_failures, sinceReconnect, current_status,
                 status_callbacks, cmd_thread, poll_thread, response_buffer,
                 rx, poll_count, wait, inExcept, spawned, framesSent,
                 delivered, holders, overtaken, sinceOpen, closes, overlap,
                 device_lower,
                 response, notifying, called, returned, result, baudrate>>

\* play(), lines 634-636
CallPlay ==
  /\ CallerIdle
  /\ Len(cmd_queue) <= MaxQueue
  /\ calls' = calls + 1
  /\ SendCommands(<<Cmd(CMD_PLAY, <<>>)>>)
  /\ UNCHANGED <<serial, connected, running, sinceCmd, consecutive_failures,
                 sinceReconnect, current_status, status_callbacks, cmd_thread,
                 poll_thread, response_buffer, rx, pc, poll_count, wait,
                 inExcept, spawned, framesSent, delivered, holders, overtaken,
                 sinceOpen, closes, overlap, device_lower,
                 response, notifying, called, returned, result, baudrate>>

\* register_callback, lines 629-631
CallRegister(l) ==
  /\ CallerIdle
  /\ l = Len(status_callbacks) + 1
  /\ calls' = calls + 1
  /\ status_callbacks' = Append(status_callbacks, l)
  /\ UNCHANGED <<serial, connected, running, cmd_queue, sinceCmd,
                 consecutive_failures, sinceReconnect, current_status,
                 cmd_thread, poll_thread, response_buffer, rx, pc, poll_count,
                 wait, inExcept, spawned, framesSent, delivered, holders,
                 overtaken, sinceOpen, closes, overlap, device_lower,
                 response, notifying, called, returned, result, baudrate>>

PlayModeCode(mode) ==
  CASE mode = "continuous" -> <<"0", "0">>
    [] mode = "single" -> <<"0", "1">>
    [] mode = "random" -> <<"0", "6">>
    [] OTHER -> <<>>

\* set_play_mode, lines 684-701
CallSetPlayMode(mode) ==
  /\ CallerIdle
  /\ Len(cmd_queue) <= MaxQueue
  /\ calls' = calls + 1
  /\ IF mode \in {"continuous", "single", "random"}
       THEN /\ SendCommands(<<Cmd(CMD_PLAY_MODE_SELECT, PlayModeCode(mode))>>)
            /\ current_status' = [current_status EXCEPT !.play_mode = mode]
       ELSE UNCHANGED <<cmd_queue, current_status>>
  /\ UNCHANGED <<serial, connected, running, sinceCmd, consecutive_failures,
                 sinceReconnect, status_callbacks, cmd_thread, poll_thread,
                 response_buffer, rx, pc, poll_count, wait, inExcept, spawned,
                 framesSent, delivered, holders, overtaken, sinceOpen, closes,
                 overlap, device_lower,
                 response, notifying, called, returned, result, baudrate>>

OnOff(enabled) == IF enabled THEN <<"0", "1">> ELSE <<"0", "0">>

\* set_repeat, lines 703-707
CallSetRepeat(enabled) ==
  /\ CallerIdle
  /\ Len(cmd_queue) <= MaxQueue
  /\ calls' = calls + 1
  /\ SendCommands(<<Cmd(CMD_REPEAT_SELECT, OnOff(enabled))>>)
  /\ current_status' = [current_status EXCEPT !.repeat_mode = enabled]
  /\ UNCHANGED <<serial, connected, running, sinceCmd, consecutive_failures,
                 sinceReconnect, status_callbacks, cmd_thread, poll_thread,
                 response_buffer, rx, pc, poll_count, wait, inExcept, spawned,
                 framesSent, delivered, holders, overtaken, sinceOpen, closes,
                 overlap, device_lower,
                 response, notifying, called, returned, result, baudrate>>

\* set_resume_mode, lines 718-722
CallSetResumeMode(enabled) ==
  /\ CallerIdle
  /\ Len(cmd_queue) <= MaxQueue
  /\ calls' = calls + 1
  /\ SendCommands(<<Cmd(CMD_RESUME_PLAY_SELECT, OnOff(enabled))>>)
  /\ current_status' = [current_status EXCEPT !.resume_mode = enabled]
  /\ UNCHANGED <<serial, connected, running, sinceCmd, consecutive_failures,
                 sinceReconnect, status_callbacks, cmd_thread, poll_thread,
                 response_buffer, rx, pc, poll_count, wait, inExcept, spawned,
                 framesSent, delivered, holders, overtaken, sinceOpen, closes,
                 overlap, device_lower,
                 response, notifying, called, returned, result, baudrate>>

\* goto_track of app.py, lines 158-164, with the goto_track of the
\* controller it calls, lines 664-682: the route answers success when the
\* controller is connected; the controller enqueues a direct track search
\* with the digits tens, ones, thousands, hundreds when 1 <= n <= 999
CallGotoTrack(n) ==
  /\ CallerIdle
  /\ Len(cmd_queue) <= MaxQueue
  /\ calls' = calls + 1
  /\ result' = connected
  /\ IF connected /\ 1 <= n /\ n <= 999
       THEN SendCommands(<<Cmd(CMD_DIRECT_TRACK_SEARCH,
                               <<DigitChars[((n \div 10) % 10) + 1],
                                 DigitChars[(n % 10) + 1],
                                 DigitChars[((n \div 1000) % 10) + 1],
                                 DigitChars[((n \div 100) % 10) + 1]>>)>>)
       ELSE UNCHANGED cmd_queue
  /\ UNCHANGED <<serial, connected, running, sinceCmd, consecutive_failures,
                 sinceReconnect, current_status, status_callbacks, cmd_thread,
                 poll_thread, response_buffer, rx, pc, poll_count, wait,
                 inExcept, spawned, framesSent, delivered, holders, overtaken,
                 sinceOpen, closes, overlap, device_lower,
                 response, notifying, called, returned, baudrate>>

\* tuner_preset, lines 803-822
CallTunerPreset(n) ==
  /\ CallerIdle
  /\ Len(cmd_queue) <= MaxQueue
  /\ calls' = calls + 1
  /\ IF 1 <= n /\ n <= 20
       THEN SendCommands(<<Cmd(CMD_DIRECT_TRACK_SEARCH,
                               <<DigitChars[((n \div 10) % 10) + 1],
                                 DigitChars[(n % 10) + 1],
                                 DigitChars[((n \div 1000) % 10) + 1],
                                 DigitChars[((n \div 100) % 10) + 1]>>)>>)
       ELSE UNCHANGED cmd_queue
  /\ UNCHANGED <<serial, connected, running, sinceCmd, consecutive_failures,
                 sinceReconnect, current_status, status_callbacks, cmd_thread,
                 poll_thread, response_buffer, rx, pc, poll_count, wait,
                 inExcept, spawned, framesSent, delivered, holders, overtaken,
                 sinceOpen, closes, overlap, device_lower,
                 response, notifying, called, returned, result, baudrate>>

\* A wrong device table: every name is a device
SwitchAnyDevice(device) == <<TRUE, <<"9", "9">>, device>>

\* device_map and device_names of switch_device: <<known, code, name>>
SwitchDeviceOf(device) ==
  CASE device = "sd" -> <<TRUE, <<"0", "0">>, "SD Card">>
    [] device = "usb" -> <<TRUE, <<"1", "0">>, "USB">>
    [] device = "cd" -> <<TRUE, <<"1", "1">>, "CD">>
    [] device = "bluetooth" -> <<TRUE, <<"2", "0">>, "Bluetooth">>
    [] device = "fm" -> <<TRUE, <<"3", "0">>, "FM Radio">>
    [] device = "am" -> <<TRUE, <<"3", "1">>, "AM Radio">>
    [] device = "aux" -> <<TRUE, <<"4", "0">>, "AUX Input">>
    [] OTHER -> <<FALSE, <<>>, "">>

\* switch_device, lines 741-763 (device is already lower case)
CallSwitchDevice(device) ==
  /\ CallerIdle
  /\ Len(cmd_queue) <= MaxQueue
  /\ calls' = calls + 1
  /\ IF SwitchDeviceOf(device)[1]
       THEN /\ SendCommands(<<Cmd(CMD_DEVICE_SELECT, SwitchDeviceOf(device)[2])>>)
            /\ current_status' = [current_status EXCEPT !.device = device]
            /\ device_lower' = device
            /\ pc' = [pc EXCEPT ![Caller] = "switch_name"]
       ELSE UNCHANGED <<cmd_queue, current_status, device_lower, pc>>
  /\ UNCHANGED <<serial, connected, running, sinceCmd, consecutive_failures,
                 sinceReconnect, status_callbacks, cmd_thread, poll_thread,
                 response_buffer, rx, poll_count, wait, inExcept, spawned,
                 framesSent, delivered, holders, overtaken, sinceOpen, closes,
                 overlap,
                 response, notifying, called, returned, result, baudrate>>

\* switch_device, lines 766-775
SwitchName ==
  /\ pc[Caller] = "switch_name"
  /\ current_status' =
       [current_status EXCEPT !.device_name = SwitchDeviceOf(device_lower)[3]]
  /\ pc' = [pc EXCEPT ![Caller] = "switch_tuner"]
  /\ UNCHANGED <<serial, connected, running, cmd_queue, sinceCmd,
                 consecutive_failures, sinceReconnect, status_callbacks,
                 cmd_thread, poll_thread, response_buffer, rx, poll_count,
                 wait, inExcept, spawned, calls, framesSent, delivered,
                 holders, overtaken, sinceOpen, closes, overlap, device_lower,
                 response, notifying, called, returned, result, baudrate>>

\* switch_device, line 778
SwitchTuner ==
  /\ pc[Caller] = "switch_tuner"
  /\ current_status' =
       [current_status EXCEPT !.is_tuner = IsTunerDevice(device_lower)]
  /\ device_lower' = ""
  /\ pc' = [pc EXCEPT ![Caller] = "idle"]
  /\ UNCHANGED <<serial, connected, running, cmd_queue, sinceCmd,
                 consecutive_failures, sinceReconnect, status_callbacks,
                 cmd_thread, poll_thread, response_buffer, rx, poll_count,
                 wait, inExcept, spawned, calls, framesSent, delivered,
                 holders, overtaken, sinceOpen, closes, overlap,
                 response, notifying, called, returned, result, baudrate>>

\* ------------------------------------------------------------------- Next
ThreadStep(t) ==
  \/ ConnOpen(t) \/ ConnSend(t) \/ ConnWrite(t)
  \/ DiscStop(t) \/ DiscFinish(t)
  \/ CmdExit(t) \/ CmdTake(t) \/ CmdWrite(t)
  \/ PollExit(t) \/ PollReconnect(t) \/ PollEnter(t) \/ PollCycle(t)

CallerStep ==
  \/ CallConnect \/ CallDisconnect \/ CallPlay
  \/ \E l \in Listeners : CallRegister(l)
  \/ \E mode \in PlayModeArgs : CallSetPlayMode(mode)
  \/ \E enabled \in OnOffArgs : CallSetRepeat(enabled)
  \/ \E enabled \in OnOffArgs : CallSetResumeMode(enabled)
  \/ \E device \in DeviceArgs : CallSwitchDevice(device)
  \/ SwitchName \/ SwitchTuner

Next ==
  \/ \E t \in AllThreads : ThreadStep(t)
  \/ CallerStep
  \/ \E chunk \in DeviceChunks : DeviceSend(chunk)
  \/ TickTenth
  \/ TickInterval

Spec == Init /\ [][Next]_vars

\* ------------------------------------------------------------ the inputs
\* The number of payload characters the decoder reads for each response
\* code: the len(data) >= n guards of _handle_response, and data[:2] for the
\* mechanism status return, which has no guard
PayloadLength(command) ==
  CASE command = RET_MECHA_STATUS -> 2
    [] command \in {RET_TRACK_NO, RET_MEDIA_STATUS, RET_CURRENT_TRACK_INFO} -> 4
    [] command = RET_CURRENT_TRACK_TIME -> 10
    [] command = RET_TOTAL_TRACK_TIME -> 12
    [] command = RET_VENDOR -> 8
    [] command \in {RET_PLAY_MODE, RET_RESUME_PLAY, RET_REPEAT, RET_INCR_PLAY,
                    RET_REMOTE_LOCAL, RET_ERROR_SENSE, RET_CAUTION_SENSE} -> 2
    [] OTHER -> 0

\* A payload of full length for each response code that has one
FullPayload(command) ==
  CASE command = RET_MECHA_STATUS -> <<"1", "1">>
    [] command = RET_TRACK_NO -> <<"1", "2", "0", "0">>
    [] command = RET_CURRENT_TRACK_TIME -> <<"0", "0", "0", "3", "0", "0", "2", "5", "0", "0">>
    [] command = RET_MEDIA_STATUS -> <<"0", "1", "0", "0">>
    [] command = RET_CURRENT_TRACK_INFO -> <<"0", "3", "0", "0">>
    [] command = RET_PLAY_MODE -> <<"0", "1">>
    [] command = RET_TOTAL_TRACK_TIME -> <<"1", "2", "0", "0", "4", "5", "0", "0", "3", "2", "0", "0">>
    [] command = RET_VENDOR -> <<"0", "1", "0", "0", "0", "0", "3", "0">>
    [] command = RET_ERROR_SENSE -> <<"0", "5">>
    [] command = RET_CAUTION_SENSE -> <<"0", "3">>
    [] command \in {RET_RESUME_PLAY, RET_REPEAT, RET_INCR_PLAY, RET_REMOTE_LOCAL} -> <<"0", "1">>
    [] OTHER -> <<>>

\* The command codes of the controller (lines 21-52); those no action of
\* the model sends are written out: CMD_INFORMATION_REQUEST, CMD_READY,
\* CMD_SEARCH, CMD_EJECT, CMD_TRACK_SKIP, CMD_INCR_PLAY_SELECT, CMD_CLEAR,
\* CMD_ENTER, CMD_BACK
CommandCodes ==
  {CMD_STOP, CMD_PLAY, CMD_DIRECT_TRACK_SEARCH, CMD_RESUME_PLAY_SELECT,
   CMD_RESUME_PLAY_SENSE, CMD_REPEAT_SELECT, CMD_REPEAT_SENSE,
   CMD_INCR_PLAY_SENSE, CMD_REMOTE_LOCAL_SELECT, CMD_REMOTE_LOCAL_SENSE,
   CMD_PLAY_MODE_SELECT, CMD_PLAY_MODE_SENSE, CMD_MECHA_STATUS_SENSE,
   CMD_TRACK_NO_SENSE, CMD_MEDIA_STATUS_SENSE, CMD_CURRENT_TRACK_INFO_SENSE,
   CMD_CURRENT_TRACK_TIME_SENSE, CMD_TOTAL_TRACK_TIME_SENSE, CMD_ERROR_SENSE,
   CMD_CAUTION_SENSE, CMD_DEVICE_SELECT,
   <<"0", "F">>, <<"1", "4">>, <<"1", "6">>, <<"1", "8">>, <<"1", "A">>, <<"3", "A">>, <<"4", "A">>,
   <<"7", "F", "7", "0", "4", "9">>, <<"7", "F", "7", "0", "4", "A">>}

\* The payloads the commands are sent with: none, a two-character argument,
\* a track number
CommandPayloads == {<<>>, <<"0", "1">>, <<"F", "F">>, <<"0", "0", "1", "2">>}

\* The complete frames the device sends, as (command, data): for each
\* response code of the controller (lines 55-74; RET_INFORMATION and
\* RET_POWER_ON_STATUS written out) a full payload and every proper prefix of
\* it, payloads of full length whose digits are not all decimal (or
\* hexadecimal, or a known device kind), track numbers with four different
\* digits and with none, and an error sense return for every byte
DeviceResponses ==
  LET codes == {<<"8", "F">>, RET_RESUME_PLAY, RET_REPEAT, RET_INCR_PLAY,
                RET_REMOTE_LOCAL, RET_PLAY_MODE, RET_MECHA_STATUS, RET_TRACK_NO,
                RET_MEDIA_STATUS, RET_CURRENT_TRACK_INFO, RET_CURRENT_TRACK_TIME,
                RET_TOTAL_TRACK_TIME, RET_ERROR_SENSE_REQUEST,
                RET_CAUTION_SENSE_REQUEST, RET_ILLEGAL_STATUS, <<"F", "4">>,
                RET_CHANGE_STATUS, RET_ERROR_SENSE, RET_CAUTION_SENSE, RET_VENDOR}
  IN UNION {{Cmd(c, SubSeq(FullPayload(c), 1, n)) : n \in 0..Len(FullPayload(c))} :
            c \in codes}
     \cup {Cmd(RET_TRACK_NO, <<"1", "2", "A", "B">>),
           Cmd(RET_CURRENT_TRACK_TIME, <<"0", "0", "A", "3", "0", "0", "2", "5", "0", "0">>),
           Cmd(RET_CURRENT_TRACK_INFO, <<"0", "X", "0", "0">>),
           Cmd(RET_TOTAL_TRACK_TIME, <<"1", "2", "A", "B", "4", "5", "0", "0", "3", "2", "0", "0">>),
           Cmd(RET_TOTAL_TRACK_TIME, <<"1", "2", "0", "0", "4", "5", "0", "A", "3", "2", "0", "0">>),
           Cmd(RET_TOTAL_TRACK_TIME, <<"0", "3", "0", "0", "0", "0", "0", "0", "0", "0", "0", "0">>),
           Cmd(RET_ERROR_SENSE, <<"Z", "Z">>),
           Cmd(RET_VENDOR, <<"0", "1", "0", "0", "0", "0", "9", "9">>),
           Cmd(RET_TRACK_NO, <<"1", "2", "3", "0">>),
           Cmd(RET_TRACK_NO, <<"0", "0", "0", "0">>),
           Cmd(RET_CURRENT_TRACK_INFO, <<"1", "2", "3", "0">>),
           Cmd(RET_TOTAL_TRACK_TIME,
               <<"1", "2", "3", "0", "4", "5", "0", "0", "3", "2", "0", "0">>)}
     \cup {Cmd(RET_ERROR_SENSE, <<HexChars[h + 1], HexChars[l + 1]>>) :
             h \in 0..15, l \in 0..15}

\* The chunks that are read in pairs as well as alone: frames (the device
\* frames its responses in the format of _build_command), and bytes that are
\* no frame: a candidate without LF, two that are too short, a lone CR, a
\* frame whose CR has not arrived, a frame with a byte above 0x7F
PairChunks ==
  {BuildCommand(RET_MECHA_STATUS, FullPayload(RET_MECHA_STATUS)),
   BuildCommand(RET_MECHA_STATUS, <<>>),
   BuildCommand(RET_TRACK_NO, FullPayload(RET_TRACK_NO)),
   BuildCommand(RET_TRACK_NO, <<"1", "2", "A", "B">>),
   BuildCommand(RET_TOTAL_TRACK_TIME, FullPayload(RET_TOTAL_TRACK_TIME)),
   BuildCommand(RET_TOTAL_TRACK_TIME, <<"1", "2", "0", "0", "4", "5", "0", "A", "3", "2", "0", "0">>),
   BuildCommand(RET_TOTAL_TRACK_TIME,
                <<"0", "3", "0", "0", "0", "0", "0", "0", "0", "0", "0", "0">>),
   BuildCommand(RET_VENDOR, FullPayload(RET_VENDOR)),
   BuildCommand(RET_CHANGE_STATUS, <<>>),
   <<"0", "D", "0", "1", "1", CR>>,
   <<LF, "0", CR>>,
   <<LF, "0", "D", CR>>,
   <<CR>>,
   <<LF, "0", "D", "0">>,
   <<LF, "0", "D", "0", "1", NonAscii, "1", CR>>}

\* What one read finds on the wire: nothing, one chunk, or a pair of chunks
WireSamples ==
  {<<>>}
  \cup {BuildCommand(r.command, r.data) : r \in DeviceResponses}
  \cup {BuildCommand(c, d) : c \in CommandCodes, d \in CommandPayloads}
  \cup PairChunks
  \cup {a \o b : a \in PairChunks, b \in PairChunks}

\* ------------------------------------------- the poll cycle, step by step
\* In Spec a poll cycle is one action and its locals are not kept.  Below,
\* the statements of a cycle are separate steps of poll thread t, so that
\* what is read, what is decoded and each call of a listener can be told
\* apart, and other threads can run between them.  The dispatch thread is
\* not scheduled in these runs, so the queries of the cycles stay queued.

\* _poll_status line 336: response = self._read_response() (lines 282-314)
ReadStep(t) ==
  /\ pc[t] = "poll_cycle"
  /\ response_buffer' = ReadResponse.buffer
  /\ rx' = IF serial = "open" THEN <<>> ELSE rx
  /\ response' = [found |-> ReadResponse.found, command |-> ReadResponse.command,
                  data |-> ReadResponse.data]
  /\ pc' = [pc EXCEPT ![t] = "handle"]
  /\ UNCHANGED <<serial, connected, running, cmd_queue, sinceCmd,
                 consecutive_failures, sinceReconnect, current_status,
                 status_callbacks, cmd_thread, poll_thread, poll_count, wait,
                 inExcept, device_lower, spawned, calls, framesSent,
                 delivered, holders, overtaken, sinceOpen, closes, overlap,
                 notifying, called, returned, result, baudrate>>

\* _poll_status lines 339-342 with _handle_response up to line 618: without
\* a response the cycle goes on to its queries; a response is decoded, and
\* then the listeners are notified (updated), or line 342 is reached, or the
\* decoder raised and the except handler (lines 387-394) runs
HandleStep(t) ==
  /\ pc[t] = "handle"
  /\ LET h == HandleResponse(current_status, response.command, response.data)
     IN IF ~response.found
          THEN /\ pc' = [pc EXCEPT ![t] = "enqueue"]
               /\ UNCHANGED <<current_status, cmd_queue, consecutive_failures,
                              inExcept, notifying, called>>
          ELSE /\ current_status' = h.st
               /\ cmd_queue' = cmd_queue \o h.cmds
               /\ IF h.raised
                    THEN /\ consecutive_failures' = consecutive_failures + 1
                         /\ inExcept' = [inExcept EXCEPT ![t] = HandlerDisconnects]
                         /\ pc' = [pc EXCEPT ![t] =
                                     IF HandlerDisconnects THEN "disc_stop" ELSE "poll_top"]
                         /\ UNCHANGED <<notifying, called>>
                    ELSE IF h.updated
                      THEN /\ notifying' = [notifying EXCEPT ![t] = 1]
                           /\ called' = <<>>
                           /\ pc' = [pc EXCEPT ![t] = "notify"]
                           /\ UNCHANGED <<consecutive_failures, inExcept>>
                      ELSE /\ consecutive_failures' = 0
                           /\ pc' = [pc EXCEPT ![t] = "enqueue"]
                           /\ UNCHANGED <<inExcept, notifying, called>>
  /\ UNCHANGED <<serial, connected, running, sinceCmd, sinceReconnect,
                 status_callbacks, cmd_thread, poll_thread, response_buffer,
                 rx, poll_count, wait, device_lower, spawned, calls,
                 framesSent, delivered, holders, overtaken, sinceOpen, closes,
                 overlap, response, returned, result, baudrate>>

\* _notify_callbacks, lines 623-627, one turn of the for loop: the callback
\* is called with a copy of the record as it is now; whether it returns or
\* raises an Exception (caught at line 626), the loop goes on.  When the
\* loop is through, _handle_response returns and line 342 resets the
\* failure counter
NotifyStep(t) ==
  /\ pc[t] = "notify"
  /\ IF notifying[t] <= Len(status_callbacks)
       THEN /\ delivered' = [delivered EXCEPT ![status_callbacks[notifying[t]]] =
                               [got |-> TRUE, snap |-> current_status]]
            /\ called' = Append(called, <<status_callbacks[notifying[t]],
                                          current_status>>)
            /\ notifying' = [notifying EXCEPT ![t] = @ + 1]
            /\ UNCHANGED <<consecutive_failures, pc>>
       ELSE /\ notifying' = [notifying EXCEPT ![t] = 0]
            /\ consecutive_failures' = 0
            /\ pc' = [pc EXCEPT ![t] = "enqueue"]
            /\ UNCHANGED <<delivered, called>>
  /\ UNCHANGED <<serial, connected, running, cmd_queue, sinceCmd,
                 sinceReconnect, current_status, status_callbacks, cmd_thread,
                 poll_thread, response_buffer, rx, poll_count, wait, inExcept,
                 device_lower, spawned, calls, framesSent, holders, overtaken,
                 sinceOpen, closes, overlap, response, returned, result, baudrate>>

\* _poll_status, lines 344-385: the status queries, the health check and the
\* count of the cycle
CycleRest(t) ==
  /\ pc[t] = "enqueue"
  /\ SendCommands(CycleCommands(poll_count[t]))
  /\ IF response.found
       THEN /\ poll_count' = [poll_count EXCEPT ![t] = (@ + 1) % PollCountPeriod]
            /\ pc' = [pc EXCEPT ![t] = "poll_top"]
            /\ UNCHANGED consecutive_failures
       ELSE /\ consecutive_failures' = consecutive_failures + 1
            /\ IF consecutive_failures + 1 >= max_failures_before_disconnect
                 THEN /\ pc' = [pc EXCEPT ![t] = "disc_stop"]
                      /\ UNCHANGED poll_count
                 ELSE /\ pc' = [pc EXCEPT ![t] = "poll_top"]
                      /\ poll_count' = [poll_count EXCEPT ![t] = (@ + 1) % PollCountPeriod]
  /\ UNCHANGED <<serial, connected, running, sinceCmd, sinceReconnect,
                 current_status, status_callbacks, cmd_thread, poll_thread,
                 response_buffer, rx, wait, inExcept, device_lower, spawned,
                 calls, framesSent, delivered, holders, overtaken, sinceOpen,
                 closes, overlap, response, notifying, called, returned, result, baudrate>>

\* The steps of poll thread t
PollSteps(t) ==
  \/ PollEnter(t) \/ ReadStep(t) \/ HandleStep(t)
  \/ NotifyStep(t) \/ CycleRest(t)

\* The controller after the register_callback calls that made callbacks and
\* a connect() that succeeded, with the bytes wire waiting to be read
ConnectedWith(callbacks, wire) ==
  /\ serial = "open"
  /\ connected = TRUE
  /\ running = TRUE
  /\ cmd_queue = <<>>
  /\ sinceCmd = CMD_INTERVAL
  /\ consecutive_failures = 0
  /\ sinceReconnect = reconnect_interval
  /\ current_status = DefaultStatus
  /\ status_callbacks = callbacks
  /\ cmd_thread = 1
  /\ poll_thread = 2
  /\ response_buffer = <<>>
  /\ rx = wire
  /\ pc = [t \in AllThreads |-> CASE t = Caller -> "idle"
                                   [] t = 1 -> "cmd_loop"
                                   [] t = 2 -> "poll_top"
                                   [] OTHER -> "unborn"]
  /\ poll_count = [t \in AllThreads |-> 0]
  /\ wait = [t \in AllThreads |-> FALSE]
  /\ inExcept = [t \in AllThreads |-> FALSE]
  /\ device_lower = ""
  /\ spawned = 1
  /\ calls = 0
  /\ framesSent = 0
  /\ delivered = [l \in Listeners |-> [got |-> FALSE, snap |-> DefaultStatus]]
  /\ holders = <<>>
  /\ overtaken = {}
  /\ sinceOpen = reconnect_interval
  /\ closes = 0
  /\ overlap = 0
  /\ response = [found |-> FALSE, command |-> <<>>, data |-> <<>>]
  /\ notifying = [t \in AllThreads |-> 0]
  /\ called = <<>>
  /\ returned = DefaultStatus
  /\ result = TRUE
  /\ baudrate = None

\* ------------------------------------------------------- the receive path
\* What is received and decoded: the poll thread of a connected controller
\* with one listener reads the bytes of WireSamples, cycle after cycle
ReceiveSpec ==
  /\ \E wire \in WireSamples : ConnectedWith(<<1>>, wire)
  /\ [][PollSteps(2)]_vars

\* ------------------------------------------------------ the shared record
\* get_status, lines 841-843, called by a request thread of app.py (line 53)
GetStatus ==
  /\ returned' = current_status
  /\ UNCHANGED <<serial, connected, running, cmd_queue, sinceCmd,
                 consecutive_failures, sinceReconnect, current_status,
                 status_callbacks, cmd_thread, poll_thread, response_buffer,
                 rx, pc, poll_count, wait, inExcept, device_lower, spawned,
                 calls, framesSent, delivered, holders, overtaken, sinceOpen,
                 closes, overlap, response, notifying, called, result, baudrate>>

\* Who reads and writes current_status: the poll thread decodes a mechanism
\* status return or a device select return and notifies the listeners,
\* while request threads call the setters and get_status
RecordNext ==
  \/ PollSteps(2)
  \/ \E device \in DeviceArgs : CallSwitchDevice(device)
  \/ SwitchName
  \/ SwitchTuner
  \/ \E enabled \in OnOffArgs : CallSetRepeat(enabled)
  \/ \E mode \in PlayModeArgs : CallSetPlayMode(mode)
  \/ \E n \in NumberArgs : CallGotoTrack(n)
  \/ \E n \in NumberArgs : CallTunerPreset(n)
  \/ GetStatus
RecordSpec ==
  /\ \E callbacks \in {<<>>, <<1>>, <<1, 2>>},
        wire \in {<<>>,
                  BuildCommand(RET_MECHA_STATUS, FullPayload(RET_MECHA_STATUS)),
                  BuildCommand(RET_VENDOR, FullPayload(RET_VENDOR))} :
       ConnectedWith(callbacks, wire)
  /\ [][RecordNext]_vars

\* ------------------------------------------------- the connect request
\* VALID_BAUDRATES, line 85
VALID_BAUDRATES == {4800, 9600, 19200, 38400, 57600}

\* The baudrate of a connect request: the default and a speed not supported
BaudrateArgs == {9600, 115200}

\* app.py connect, lines 62-73: the request is read and the controller there
\* is, if any, is disconnected
HttpConnect(b) ==
  /\ CallerIdle
  /\ calls' = calls + 1
  /\ baudrate' = b
  /\ pc' = [pc EXCEPT ![Caller] = "disc_stop"]
  /\ UNCHANGED <<serial, connected, running, cmd_queue, sinceCmd,
                 consecutive_failures, sinceReconnect, current_status,
                 status_callbacks, cmd_thread, poll_thread, response_buffer,
                 rx, poll_count, wait, inExcept, spawned, framesSent,
                 delivered, holders, overtaken, sinceOpen, closes, overlap,
                 device_lower, response, notifying, called, returned, result>>

\* app.py connect, lines 75-78: TascamController(port, baudrate), whose
\* __init__ (lines 98-99) raises ValueError for a baudrate not in
\* VALID_BAUDRATES, which the route answers with success False (lines
\* 89-94); otherwise the new controller replaces the old one, whose threads
\* work on the old object from then on, status_callback is registered and
\* connect() is called
HttpConstruct ==
  /\ pc[Caller] = "http_new"
  /\ IF baudrate \notin VALID_BAUDRATES
       THEN /\ result' = FALSE
            /\ baudrate' = None
            /\ pc' = [pc EXCEPT ![Caller] = "idle"]
            /\ UNCHANGED <<serial, connected, running, cmd_queue, sinceCmd,
                           consecutive_failures, sinceReconnect, current_status,
                           status_callbacks, cmd_thread, poll_thread,
                           response_buffer, poll_count, wait, inExcept,
                           holders, overtaken, response, notifying>>
       ELSE /\ serial' = "None"
            /\ connected' = FALSE
            /\ running' = FALSE
            /\ cmd_queue' = <<>>
            /\ sinceCmd' = CMD_INTERVAL
            /\ consecutive_failures' = 0
            /\ sinceReconnect' = reconnect_interval
            /\ current_status' = DefaultStatus
            /\ status_callbacks' = <<1>>
            /\ cmd_thread' = None
            /\ poll_thread' = None
            /\ response_buffer' = <<>>
            /\ pc' = [t \in AllThreads |->
                        IF t = Caller THEN "conn_open"
                        ELSE IF Alive(t) THEN "done" ELSE pc[t]]
            /\ poll_count' = [t \in AllThreads |-> 0]
            /\ wait' = [t \in AllThreads |-> FALSE]
            /\ inExcept' = [t \in AllThreads |-> FALSE]
            /\ holders' = <<>>
            /\ overtaken' = {}
            /\ response' = [found |-> FALSE, command |-> <<>>, data |-> <<>>]
            /\ notifying' = [t \in AllThreads |-> 0]
            /\ UNCHANGED <<result, baudrate>>
  /\ UNCHANGED <<rx, spawned, calls, framesSent, delivered, sinceOpen, closes,
                 overlap, device_lower, called, returned>>

\* app.py connect, lines 78-87: the answer is what connect() returned
HttpReturn ==
  /\ pc[Caller] \in {"http_ok", "http_failed"}
  /\ result' = (pc[Caller] = "http_ok")
  /\ baudrate' = None
  /\ pc' = [pc EXCEPT ![Caller] = "idle"]
  /\ UNCHANGED <<serial, connected, running, cmd_queue, sinceCmd,
                 consecutive_failures, sinceReconnect, current_status,
                 status_callbacks, cmd_thread, poll_thread, response_buffer,
                 rx, poll_count, wait, inExcept, spawned, calls, framesSent,
                 delivered, holders, overtaken, sinceOpen, closes, overlap,
                 device_lower, response, notifying, called, returned>>

\* One connect request, at a supported speed or not, to a connected
\* controller whose device is silent
ConnectSpec ==
  /\ ConnectedWith(<<1>>, <<>>)
  /\ [][\/ \E b \in BaudrateArgs : calls = 0 /\ HttpConnect(b)
        \/ HttpConstruct
        \/ HttpReturn
        \/ \E t \in AllThreads :
             \/ ConnOpen(t) \/ ConnSend(t) \/ ConnWrite(t)
             \/ DiscStop(t) \/ DiscFinish(t)
             \/ CmdExit(t) \/ CmdTake(t) \/ CmdWrite(t)
             \/ PollExit(t) \/ PollEnter(t) \/ PollCycle(t)
        \/ TickTenth]_vars

\* -------------------------------------------------- the track number codec
\* One request for a track, with every number from 0 to 1000, to a connected
\* controller
GotoSpec ==
  /\ ConnectedWith(<<1>>, <<>>)
  /\ [][\E n \in 0..1000 : calls = 0 /\ CallGotoTrack(n)]_vars

\* ------------------------------------------------------------ the sessions
\* A connected controller whose device has sent nothing, or the beginning
\* of a frame whose CR does not come, and what follows when the caller
\* disconnects and then connects again: the session ends and another begins
SessionSpec ==
  /\ \E wire \in {<<>>, <<LF, "0", "D", "0">>} : ConnectedWith(<<1>>, wire)
  /\ [][\/ CallDisconnect
        \/ calls = 1 /\ CallConnect
        \/ \E t \in AllThreads :
             \/ ConnOpen(t) \/ ConnSend(t) \/ ConnWrite(t)
             \/ DiscStop(t) \/ DiscFinish(t)
             \/ CmdExit(t) \/ CmdTake(t) \/ CmdWrite(t)
             \/ PollExit(t) \/ PollEnter(t) \/ PollCycle(t)
        \/ TickTenth]_vars

\* ============================================================ properties
\* Steps of the threads, as seen in a pair of states
\* Thread t leaves the disconnect() it is executing (it returns or it raises)
LeavesDisconnect(t) ==
  /\ pc[t] \in {"disc_stop", "disc_finish"}
  /\ pc'[t] \notin {"disc_stop", "disc_finish"}

\* Thread t executes lines 190-193 of disconnect()
JoinStep(t) ==
  /\ pc[t] = "disc_stop"
  /\ pc'[t] # pc[t] \/ inExcept'[t] # inExcept[t]

\* Thread t writes its command to the open transport
WriteStep(t) ==
  /\ pc[t] \in {"conn_write", "cmd_write"}
  /\ pc'[t] # pc[t]
  /\ serial = "open"

\* Thread t attempts to open the transport
OpenStep(t) == pc[t] = "conn_open" /\ pc'[t] # pc[t]

\* Poll thread t runs a poll cycle through to the end of the loop body
CycleStep(t) == pc[t] = "poll_cycle" /\ pc'[t] = "poll_top"

\* Every registered listener was last called with a copy of st
AllNotifiedOf(d, st) ==
  \A l \in Listeners : Registered(l) => d[l] = [got |-> TRUE, snap |-> st]

\* C1: when the poll loop has counted 10 silent cycles and calls disconnect(),
\* that call ends with the controller Disconnected (connected false), Device
\* Status at its default record and every registered listener notified of
\* the reset.
C1_AutoDisconnectResets ==
  [][\A t \in PollThreads :
       LeavesDisconnect(t) =>
         /\ ~connected'
         /\ current_status' = DefaultStatus
         /\ AllNotifiedOf(delivered', DefaultStatus)]_vars

\* C2: after an automatic disconnect reconnection keeps being attempted.
\* Reconnection is attempted by a poll loop only (lines 322-333), so when
\* the disconnect() called by a poll loop ends, a poll loop that has not
\* been told to stop is still there to make the attempts.
C2_ReconnectGoesOn ==
  [][\A t \in PollThreads :
       LeavesDisconnect(t) =>
         /\ running'
         /\ \E u \in PollThreads : pc'[u] \notin {"unborn", "done", "crashed"}]_vars

\* C3: a poll cycle in which a well-formed frame is extracted ends with the
\* failure counter at 0; a poll cycle in which none is extracted ends with
\* the counter one more than at its start.
C3_CounterFollowsFrames ==
  [][\A t \in PollThreads :
       CycleStep(t) =>
         IF ReadResponse.found
           THEN consecutive_failures' = 0
           ELSE consecutive_failures' = consecutive_failures + 1]_vars

\* C4: the controller is never Disconnected (connected false) with the
\* transport still open, and the transport is not closed twice.
C4_DisconnectedIsClosed ==
  /\ ~connected => serial # "open"
  /\ closes <= 1

\* C5: disconnect(), called by the caller or by the poll loop, completes:
\* its joins return and it goes on to close the transport, set connected to
\* false and reset the status; it does not raise.
C5_DisconnectCompletes ==
  [][\A t \in AllThreads : JoinStep(t) => pc'[t] = "disc_finish"]_vars

\* C6: any two consecutive writes of command frames to the transport are at
\* least CMD_INTERVAL apart, the write of connect() included.
C6_WritesPaced ==
  [][\A t \in AllThreads : WriteStep(t) => sinceCmd >= CMD_INTERVAL]_vars

\* C7: commands are written to the transport in the order they were
\* enqueued: no command is written after one that was enqueued later.
C7_WrittenInOrder ==
  [][\A t \in CmdThreads : WriteStep(t) => t \notin overtaken]_vars

\* C8: two attempts to open the transport are at least reconnect_interval
\* apart, whether made by connect() calls of the caller or by the poll loop.
C8_OpensSpaced ==
  [][\A t \in AllThreads : OpenStep(t) => sinceOpen >= reconnect_interval]_vars

\* C9: Device Status changes only in a poll cycle's decode (_handle_response)
\* or in the reset of disconnect(); no caller operation changes it.
C9_StatusWriters ==
  [][current_status' # current_status =>
       \E t \in AllThreads :
         \/ pc[t] = "poll_cycle" /\ pc'[t] # pc[t]
         \/ pc[t] = "disc_finish" /\ pc'[t] # pc[t]]_vars

\* C10: every change of Device Status comes with a call of every registered
\* listener with a copy of the record as it is after the change.
C10_MutationNotifies ==
  [][current_status' # current_status =>
       AllNotifiedOf(delivered', current_status')]_vars

\* C11: when the notification loop of a decode that updated the status is
\* through, the listeners it called are the registered ones, each once and
\* in registration order, and all were given equal snapshots.
C11_EachListenerOnce ==
  [][\A t \in PollThreads :
       pc[t] = "notify" /\ pc'[t] = "enqueue" =>
         /\ [i \in 1..Len(called) |-> called[i][1]] = status_callbacks
         /\ \A i, j \in 1..Len(called) : called[i][2] = called[j][2]]_vars

\* The record st is that of one device: is_tuner says whether device is a
\* tuner, and device_name is the name of device
OneDevice(st) ==
  /\ st.is_tuner = IsTunerDevice(st.device)
  /\ st.device_name = IF st.device = DefaultStatus.device
                        THEN DefaultStatus.device_name
                        ELSE SwitchDeviceOf(st.device)[3]

\* C12: every snapshot a listener is given, and every snapshot get_status
\* returns, is the record as it stood after a complete update: is_tuner and
\* device_name go with device.
C12_SnapshotsWhole ==
  /\ \A l \in Listeners : delivered[l].got => OneDevice(delivered[l].snap)
  /\ OneDevice(returned)

\* Poll thread t decodes the response it has read (_handle_response runs)
DecodeStep(t) == pc[t] = "handle" /\ pc'[t] # "handle" /\ response.found

\* C13: decoding a response whose payload is shorter than its code requires
\* leaves the whole record unchanged, goes on to the queries of the cycle
\* without notifying a listener, and does not raise.
C13_ShortPayloadIgnored ==
  [][\A t \in PollThreads :
       DecodeStep(t) /\ Len(response.data) < PayloadLength(response.command) =>
         /\ current_status' = current_status
         /\ pc'[t] = "enqueue"]_vars

\* C14: a decode either leaves the record exactly as it was or stores all
\* the fields of its frame, which is when it sets updated and notifies; it
\* never changes the record and then stops short.
C14_AllFieldsOrNone ==
  [][\A t \in PollThreads :
       DecodeStep(t) => current_status' = current_status \/ pc'[t] = "notify"]_vars

\* Poll thread t calls _read_response; the bytes its extraction works on
ExtractStep(t) == pc[t] = "poll_cycle" /\ pc'[t] = "handle"
Pending == IF serial = "open" THEN response_buffer \o rx ELSE response_buffer

\* C15: the bytes _build_command makes of a command code and a payload,
\* given to the extraction of _read_response, come back as that code and
\* that payload, for every command code of the controller.
C15_RoundTrip ==
  [][\A t \in PollThreads :
       ExtractStep(t) =>
         \A c \in CommandCodes, d \in CommandPayloads :
           Pending = BuildCommand(c, d) =>
             response' = [found |-> TRUE, command |-> c, data |-> d]]_vars

\* The buffer buf begins with the bytes f
BeginsWith(buf, f) == Len(f) <= Len(buf) /\ SubSeq(buf, 1, Len(f)) = f

\* C16: an extraction from a buffer that begins with a complete frame returns
\* the code and the payload of that frame, and leaves in the buffer exactly
\* the bytes after that frame's CR; so of two frames read together the first
\* extraction returns the first and keeps the whole second, and the next
\* extraction returns the second.
C16_FramesOneByOne ==
  [][\A t \in PollThreads :
       ExtractStep(t) =>
         \A r \in DeviceResponses :
           BeginsWith(Pending, BuildCommand(r.command, r.data)) =>
             /\ response' = [found |-> TRUE, command |-> r.command, data |-> r.data]
             /\ response_buffer' = Drop(Pending, Len(BuildCommand(r.command, r.data)))]_vars

\* C16, its case: a mechanism status return and a track number return were
\* read together; the first has been decoded, the second extraction has
\* just returned the second, and the buffer is empty.
C16_SecondFrameExtracted ==
  /\ pc[2] = "handle"
  /\ current_status.mecha_status = "play"
  /\ response = [found |-> TRUE, command |-> RET_TRACK_NO,
                 data |-> FullPayload(RET_TRACK_NO)]
  /\ response_buffer = <<>>

\* The candidate frame of a buffer that holds a CR is the bytes before the
\* first CR (message, line 296).  A candidate m is malformed when the tests
\* of lines 300 and 302 fail: it does not begin with LF, or fewer than 3
\* characters follow the LF.
Malformed(m) == ~(Len(m) >= 3 /\ m[1] = LF /\ Len(DecodeAscii(Tail(m))) >= 3)

\* C17: an extraction that meets a malformed candidate discards it without
\* a change of the record and goes on with the bytes after it in the same
\* call: when a complete frame follows, the call returns that frame.
C17_GoesOnAfterMalformed ==
  [][\A t \in PollThreads :
       (/\ ExtractStep(t)
        /\ HasCR(Pending)
        /\ Malformed(SubSeq(Pending, 1, CRIndex(Pending) - 1))) =>
         /\ current_status' = current_status
         /\ \A r \in DeviceResponses :
              BeginsWith(Drop(Pending, CRIndex(Pending)),
                         BuildCommand(r.command, r.data)) =>
                response' = [found |-> TRUE, command |-> r.command, data |-> r.data]]_vars

\* C18: after the read and decode of a poll cycle, when the cycle goes on to
\* its queries, no CR is left in the pending buffer: every complete frame
\* that had arrived has been decoded.
C18_BufferDrained ==
  \A t \in PollThreads : pc[t] = "enqueue" => ~HasCR(response_buffer)

\* C19: every poll cycle leaves at the end of the queue the mechanism
\* status, track number and track time queries, followed by the five
\* queries of every tenth cycle when its index is a multiple of 10 and by
\* the four of every thirtieth when it is a multiple of 30; also a cycle
\* whose inbound frame could not be decoded.
C19_EveryCycleEnqueues ==
  [][\A t \in PollThreads :
       pc[t] = "poll_cycle" /\ pc'[t] # "poll_cycle" =>
         LET cs == EveryCycle
                     \o (IF poll_count[t] % 10 = 0 THEN EveryTenth ELSE <<>>)
                     \o (IF poll_count[t] % 30 = 0 THEN EveryThirtieth ELSE <<>>)
             n == Len(cmd_queue')
         IN /\ Len(cs) <= n
            /\ SubSeq(cmd_queue', n - Len(cs) + 1, n) = cs]_vars

\* C20: while connected is false no command is written to the transport and
\* none leaves the queue: the queue only grows at its end.
C20_QueueKeptWhileDisconnected ==
  [][~connected =>
       /\ \A t \in AllThreads : ~WriteStep(t)
       /\ BeginsWith(cmd_queue', cmd_queue)]_vars

\* C21: a call with an invalid argument (goto_track outside 1..999,
\* tuner_preset outside 1..20, set_play_mode with an unknown mode name,
\* switch_device with an unknown device name) enqueues no command and leaves
\* Device Status unchanged.
C21_InvalidCallIgnored ==
  [][/\ \A n \in NumberArgs :
          \/ CallGotoTrack(n) /\ ~(1 <= n /\ n <= 999)
          \/ CallTunerPreset(n) /\ ~(1 <= n /\ n <= 20)
          => cmd_queue' = cmd_queue /\ current_status' = current_status
     /\ \A mode \in PlayModeArgs :
          CallSetPlayMode(mode) /\ mode \notin {"continuous", "single", "random"}
          => cmd_queue' = cmd_queue /\ current_status' = current_status
     /\ \A device \in DeviceArgs :
          /\ CallSwitchDevice(device)
          /\ device \notin {"sd", "usb", "cd", "bluetooth", "fm", "am", "aux"}
          => cmd_queue' = cmd_queue /\ current_status' = current_status]_vars

\* C21, its case: a request thread has made one call, which was rejected; the
\* queue is empty and the record is as it was.
C21_InvalidCallMade ==
  /\ calls = 1
  /\ pc[Caller] = "idle"
  /\ pc[2] = "poll_top"
  /\ cmd_queue = <<>>
  /\ current_status = DefaultStatus

\* C22: a request with a track number outside 1..999 is answered with a
\* failure (success false).
C22_InvalidReported ==
  [][\A n \in NumberArgs :
       CallGotoTrack(n) /\ ~(1 <= n /\ n <= 999) => ~result']_vars

\* C23: decoding a track number return with payload "1230" (tens 1, ones 2,
\* thousands 3, hundreds 0) sets track_number to 3012, with payload "0000"
\* to 0 and with payload "1200" to 12; the same order of digits gives
\* current_track and total_tracks.
C23_TrackDigits ==
  [][\A t \in PollThreads :
       DecodeStep(t) =>
         /\ response.command = RET_TRACK_NO =>
              /\ response.data = <<"1", "2", "3", "0">> =>
                   current_status'.track_number = 3012
              /\ response.data = <<"0", "0", "0", "0">> =>
                   current_status'.track_number = 0
              /\ response.data = <<"1", "2", "0", "0">> =>
                   current_status'.track_number = 12
         /\ (/\ response.command = RET_CURRENT_TRACK_INFO
             /\ response.data = <<"1", "2", "3", "0">>) =>
              current_status'.current_track = 3012
         /\ (/\ response.command = RET_TOTAL_TRACK_TIME
             /\ response.data =
                  <<"1", "2", "3", "0", "4", "5", "0", "0", "3", "2", "0", "0">>) =>
              current_status'.total_tracks = 3012]_vars

\* C23, its case: the track number return with payload "1230" has been
\* decoded and the listeners are about to be told.
C23_Track1230Decoded ==
  /\ pc[2] = "notify"
  /\ response.command = RET_TRACK_NO
  /\ response.data = <<"1", "2", "3", "0">>
  /\ current_status.track_number = 3012

\* C23 as stated: decoding a track number return with payload "1230" sets
\* track_number to 31.
C23_Track1230Is31 ==
  [][\A t \in PollThreads :
       (/\ DecodeStep(t)
        /\ response.command = RET_TRACK_NO
        /\ response.data = <<"1", "2", "3", "0">>) =>
         current_status'.track_number = 31]_vars

\* C24: for every byte 0x00..0xFF of an error sense return, the decoded
\* error record carries that byte, the names of exactly the bits that are
\* set (bit 0 focus_error, bit 1 tracking_error, bit 2 spindle_error, bit 3
\* sled_error, bit 4 tray_error, bit 5 no_disc, bit 6 cannot_play, bit 7
\* other_error), and has_error exactly when the byte is not zero; 0x05 gives
\* focus_error and spindle_error, 0x00 gives no name.
C24_ErrorBits ==
  [][\A t \in PollThreads :
       (DecodeStep(t) /\ response.command = RET_ERROR_SENSE) =>
         \A h, l \in 0..15 :
           response.data = <<HexChars[h + 1], HexChars[l + 1]>> =>
             LET b == 16 * h + l
                 e == current_status'.error_status
                 bits == <<l % 2, (l \div 2) % 2, (l \div 4) % 2, l \div 8,
                           h % 2, (h \div 2) % 2, (h \div 4) % 2, h \div 8>>
                 table == <<"focus_error", "tracking_error", "spindle_error",
                            "sled_error", "tray_error", "no_disc",
                            "cannot_play", "other_error">>
             IN /\ e.present
                /\ e.raw = b
                /\ {e.names[i] : i \in 1..Len(e.names)}
                     = {table[i] : i \in {k \in 1..8 : bits[k] = 1}}
                /\ e.has = (b # 0)
                /\ b = 5 => e.names = <<"focus_error", "spindle_error">>
                /\ b = 0 => e.names = <<>>]_vars

\* C24, its case: the error sense return with byte 0x05 has been decoded.
C24_Byte05Decoded ==
  /\ pc[2] = "notify"
  /\ response.command = RET_ERROR_SENSE
  /\ response.data = <<"0", "5">>
  /\ current_status.error_status.present
  /\ current_status.error_status.raw = 5
  /\ current_status.error_status.has

\* C25: decoding an error sense request (F0), a caution sense request (F1)
\* or a change status notification (F6) leaves the record unchanged, calls
\* no listener and enqueues exactly one command: error sense, caution sense
\* or the device select query (7F01 FF); an illegal status return (F2)
\* changes no field and enqueues nothing.
C25_RequestsEnqueueOne ==
  [][\A t \in PollThreads :
       DecodeStep(t) =>
         LET asks(c, q) ==
               response.command = c =>
                 /\ current_status' = current_status
                 /\ delivered' = delivered
                 /\ pc'[t] = "enqueue"
                 /\ cmd_queue' = cmd_queue \o q
         IN /\ asks(<<"F", "0">>, <<Cmd(<<"7", "8">>, <<>>)>>)
            /\ asks(<<"F", "1">>, <<Cmd(<<"7", "9">>, <<>>)>>)
            /\ asks(<<"F", "6">>, <<Cmd(<<"7", "F", "0", "1">>, <<"F", "F">>)>>)
            /\ asks(<<"F", "2">>, <<>>)]_vars

\* C25, its case: a change status notification has been decoded, the device
\* select query is the only command in the queue and the record is as it was.
C25_ChangeStatusDecoded ==
  /\ pc[2] = "enqueue"
  /\ response.found
  /\ response.command = <<"F", "6">>
  /\ cmd_queue = <<Cmd(CMD_DEVICE_SELECT, <<"F", "F">>)>>
  /\ current_status = DefaultStatus

\* C26: decoding a total track/time return with a payload of 12 decimal
\* digits always stores the total track count and notifies; it stores the
\* total time when the six time digits are not all zero, and leaves the
\* stored total time as it was when they are.  "120045003200" gives 12
\* tracks and 45:32, "030000000000" gives 3 tracks and the time kept.
C26_TotalTimeSentinel ==
  [][\A t \in PollThreads :
       (/\ DecodeStep(t)
        /\ response.command = RET_TOTAL_TRACK_TIME
        /\ Len(response.data) = 12
        /\ \A i \in 1..12 : IsDigit(response.data[i])) =>
         LET d == response.data
             zero == \A i \in 5..10 : d[i] = "0"
         IN /\ pc'[t] = "notify"
            /\ current_status'.total_tracks = TrackNum(d)
            /\ zero => current_status'.total_time = current_status.total_time
            /\ ~zero => current_status'.total_time = TimeOf(SubSeq(d, 5, 10))
            /\ d = <<"1", "2", "0", "0", "4", "5", "0", "0", "3", "2", "0", "0">> =>
                 /\ current_status'.total_tracks = 12
                 /\ current_status'.total_time = <<"4", "5", ":", "3", "2">>
            /\ d = <<"0", "3", "0", "0", "0", "0", "0", "0", "0", "0", "0", "0">> =>
                 current_status'.total_tracks = 3]_vars

\* C26, its case: after a return with total time 45:32 a return with the
\* all-zero time has been decoded: the count is the new one, the time is kept.
C26_ZeroTimeKept ==
  /\ pc[2] = "notify"
  /\ response.command = RET_TOTAL_TRACK_TIME
  /\ response.data = <<"0", "3", "0", "0", "0", "0", "0", "0", "0", "0", "0", "0">>
  /\ current_status.total_tracks = 3
  /\ current_status.total_time = <<"4", "5", ":", "3", "2">>

\* C27: a decode notifies the listeners only when it changed a field of the
\* record: a response that states the values already stored notifies nobody.
C27_NotifiesOnlyChange ==
  [][\A t \in PollThreads :
       DecodeStep(t) /\ current_status' = current_status => pc'[t] # "notify"]_vars

\* C28: for one controller, at every moment at most one command dispatch
\* loop and at most one poll loop are running.
C28_OneLoopEach ==
  /\ Cardinality({t \in CmdThreads : Alive(t)}) <= 1
  /\ Cardinality({t \in PollThreads : Alive(t)}) <= 1

\* C29: whenever connected is true, running is true, the dispatch thread
\* and the poll thread the controller holds are alive, and the transport is
\* open.
C29_ConnectedIsServed ==
  connected =>
    /\ running
    /\ serial = "open"
    /\ cmd_thread # None /\ Alive(cmd_thread)
    /\ poll_thread # None /\ Alive(poll_thread)

\* C30: consecutive_failures never exceeds max_failures_before_disconnect,
\* and it is 0 whenever connected is false.
C30_CounterBounded ==
  /\ consecutive_failures <= max_failures_before_disconnect
  /\ ~connected => consecutive_failures = 0

\* C32: for every track number n of 1..999, the payload goto_track(n)
\* enqueues has four digits, and the decoder's rule for a track number return
\* makes n of it again.
C32_TrackRoundTrip ==
  [][\A n \in 1..999 :
       CallGotoTrack(n) =>
         LET data == cmd_queue'[Len(cmd_queue')].data
             h == HandleResponse(current_status, RET_TRACK_NO, data)
         IN /\ Len(cmd_queue') = Len(cmd_queue) + 1
            /\ Len(data) = 4
            /\ h.updated
            /\ h.st.track_number = n]_vars

\* C32, its case: goto_track(999) has enqueued its command, with the digits
\* tens 9, ones 9, thousands 0, hundreds 9.
C32_Track999Enqueued ==
  /\ calls = 1
  /\ cmd_queue = <<Cmd(CMD_DIRECT_TRACK_SEARCH, <<"9", "9", "0", "9">>)>>

\* C31: response_buffer is empty whenever connected becomes true: bytes a
\* session left without their CR are not in front of what the next session
\* receives.
C31_BufferEmptyAtConnect ==
  [][~connected /\ connected' => response_buffer' = <<>>]_vars

\* C33: once a disconnect() has returned, and until the next connect, no
\* step of a poll thread changes Device Status or the queue: a poll cycle
\* that was in progress does not enqueue its queries after the reset.
C33_QuietAfterDisconnect ==
  [][(~connected /\ ~running /\ pc[Caller] = "idle") =>
       \A t \in PollThreads :
         pc'[t] # pc[t] =>
           cmd_queue' = cmd_queue /\ current_status' = current_status]_vars

\* C34: the steps of a connect request whose baudrate is not supported
\* leave the controller as it was: connected and running do not change, so a
\* controller connected before the request is connected, with its loops
\* running, when the request has failed.
C34_RejectedConnectKeepsSession ==
  [][(baudrate' \notin VALID_BAUDRATES \cup {None}
        \/ baudrate \notin VALID_BAUDRATES \cup {None})
     /\ pc'[Caller] # pc[Caller]
       => connected' = connected /\ running' = running]_vars

====
